---- MODULE Spec2Model ----
(***************************************************************************)
(* The resume transpiler of md2pdf.py: build_resume_tex and the pure       *)
(* helpers it calls (escape_tex, fmt, parse_heading3, parse_meta).         *)
(*                                                                         *)
(* A text is a sequence of one-character strings.  The characters outside  *)
(* ASCII that the code names are written as tokens: "EMDASH" (U+2014),     *)
(* "ENDASH" (U+2013), "ARROW" (U+2192), "LDQUO" (U+201C), "RDQUO"          *)
(* (U+201D), and the grave accent (U+0060) as "GRAVE".  The cursor i is    *)
(* 0-based as in the code, so lines[i] of the code is lines[i + 1] here.   *)
(***************************************************************************)
EXTENDS Integers, Sequences, FiniteSets, TLC

VARIABLES lines, out, item_list_open, sub_list_open, current_section, i,
          pc, lastHeader

vars == <<lines, out, item_list_open, sub_list_open, current_section, i,
          pc, lastHeader>>

(***************************************************************************)
(* Bounds                                                                  *)
(***************************************************************************)
MaxLines == 3

MaxEntryLines == 4

MaxFmtLines == 3

MaxHeadLines == 3

(***************************************************************************)
(* Texts                                                                   *)
(***************************************************************************)
Chars(s) == [k \in 1..Len(s) |-> SubSeq(s, k, k)]

Min(S) == CHOOSE x \in S : \A y \in S : x <= y

Max(S) == CHOOSE x \in S : \A y \in S : x >= y

WS == {" ", "\t"}

\* str.strip(): drop the leading and the trailing whitespace
strip(s) ==
  LET ks == {k \in 1..Len(s) : s[k] \notin WS}
  IN  IF ks = {} THEN <<>> ELSE SubSeq(s, Min(ks), Max(ks))

\* "not s.strip()"
IsBlank(s) == strip(s) = <<>>

\* str.startswith(p)
startswith(s, p) == Len(s) >= Len(p) /\ SubSeq(s, 1, Len(p)) = p

\* the positions at which p occurs in s
Occurrences(s, p) ==
  {k \in 1..(Len(s) - Len(p) + 1) : SubSeq(s, k, k + Len(p) - 1) = p}

\* "p in s"
Contains(s, p) == Occurrences(s, p) # {}

\* str.replace(c, r) for a one-character c
RECURSIVE replace(_, _, _)
replace(s, c, r) ==
  IF s = <<>> THEN <<>>
  ELSE (IF Head(s) = c THEN r ELSE <<Head(s)>>) \o replace(Tail(s), c, r)

\* str.split(sep, 1) of a text that contains sep
split1(s, sep) ==
  LET k == Min(Occurrences(s, sep))
  IN  <<SubSeq(s, 1, k - 1), SubSeq(s, k + Len(sep), Len(s))>>

\* str.lstrip('#')
RECURSIVE lstripHash(_)
lstripHash(s) ==
  IF s # <<>> /\ Head(s) = "#" THEN lstripHash(Tail(s)) ELSE s

Upper == Chars("ABCDEFGHIJKLMNOPQRSTUVWXYZ")

Lowercase == Chars("abcdefghijklmnopqrstuvwxyz")

lowerChar(c) ==
  IF \E k \in 1..26 : Upper[k] = c
  THEN Lowercase[CHOOSE k \in 1..26 : Upper[k] = c]
  ELSE c

\* str.lower()
lower(s) == [k \in 1..Len(s) |-> lowerChar(s[k])]

(***************************************************************************)
(* escape_tex and fmt                                                      *)
(***************************************************************************)
escape_tex(t) ==
  LET t1 == replace(t, "&", <<"\\", "&">>)
      t2 == replace(t1, "%", <<"\\", "%">>)
      t3 == replace(t2, "#", <<"\\", "#">>)
  IN  replace(t3, "_", <<"\\", "_">>)

\* re.sub(r'\*\*(.+?)\*\*', r'\\textbf{\1}', t)
RECURSIVE subBold(_)
subBold(t) ==
  IF t = <<>> THEN <<>>
  ELSE LET qs == {q \in 4..(Len(t) - 1) : t[q] = "*" /\ t[q + 1] = "*"}
       IN  IF startswith(t, <<"*", "*">>) /\ qs # {}
           THEN Chars("\\textbf{") \o SubSeq(t, 3, Min(qs) - 1) \o <<"}">>
                  \o subBold(SubSeq(t, Min(qs) + 2, Len(t)))
           ELSE <<Head(t)>> \o subBold(Tail(t))

\* re.sub(r'\*(.+?)\*', r'\\textit{\1}', t)
RECURSIVE subItalic(_)
subItalic(t) ==
  IF t = <<>> THEN <<>>
  ELSE LET qs == {q \in 3..Len(t) : t[q] = "*"}
       IN  IF Head(t) = "*" /\ qs # {}
           THEN Chars("\\textit{") \o SubSeq(t, 2, Min(qs) - 1) \o <<"}">>
                  \o subItalic(SubSeq(t, Min(qs) + 1, Len(t)))
           ELSE <<Head(t)>> \o subItalic(Tail(t))

\* re.sub(r'\[(.+?)\]\((.+?)\)', r'\\href{\2}{\1}', t)
RECURSIVE subLink(_)
subLink(t) ==
  IF t = <<>> THEN <<>>
  ELSE LET qs == {q \in 3..(Len(t) - 1) : t[q] = "]" /\ t[q + 1] = "("}
           rs == IF qs = {} THEN {}
                 ELSE {r \in (Min(qs) + 3)..Len(t) : t[r] = ")"}
       IN  IF Head(t) = "[" /\ rs # {}
           THEN Chars("\\href{") \o SubSeq(t, Min(qs) + 2, Min(rs) - 1)
                  \o <<"}", "{">> \o SubSeq(t, 2, Min(qs) - 1) \o <<"}">>
                  \o subLink(SubSeq(t, Min(rs) + 1, Len(t)))
           ELSE <<Head(t)>> \o subLink(Tail(t))

OpenQuotes == <<"GRAVE", "GRAVE">>

CloseQuotes == <<"'", "'">>

\* fmt with the italic spans substituted before the bold spans
fmt_italicFirst(t) ==
  LET t1 == escape_tex(t)
      t2 == subItalic(t1)
      t3 == subBold(t2)
      t4 == subLink(t3)
      t5 == replace(t4, "ARROW", Chars("$\\rightarrow$"))
      t6 == replace(t5, "ENDASH", <<"-", "-">>)
      t7 == replace(t6, "LDQUO", OpenQuotes)
  IN  replace(t7, "RDQUO", CloseQuotes)

fmt(t) ==
  LET t1 == escape_tex(t)
      t2 == subBold(t1)
      t3 == subItalic(t2)
      t4 == subLink(t3)
      t5 == replace(t4, "ARROW", Chars("$\\rightarrow$"))
      t6 == replace(t5, "ENDASH", <<"-", "-">>)
      t7 == replace(t6, "LDQUO", OpenQuotes)
  IN  replace(t7, "RDQUO", CloseQuotes)

(***************************************************************************)
(* parse_heading3 and parse_meta                                           *)
(***************************************************************************)
Separators ==
  << <<" ", "EMDASH", " ">>, Chars(" -- "), Chars(" \\textemdash "),
     <<"EMDASH">> >>

\* parse_heading3 splitting at the separator that occurs first in the text
parse_heading3_byPosition(line) ==
  LET text == strip(lstripHash(line))
      hits == {n \in 1..Len(Separators) : Contains(text, Separators[n])}
      at(n) == Min(Occurrences(text, Separators[n]))
  IN  IF hits # {}
      THEN LET first == CHOOSE n \in hits : \A m \in hits : at(n) <= at(m)
               ab == split1(text, Separators[first])
           IN  <<strip(ab[1]), strip(ab[2])>>
      ELSE <<text, <<>>>>

\* returns <<name_or_company, role_or_empty>>
parse_heading3(line) ==
  LET text == strip(lstripHash(line))
      hits == {n \in 1..Len(Separators) : Contains(text, Separators[n])}
  IN  IF hits # {}
      THEN LET ab == split1(text, Separators[Min(hits)])
           IN  <<strip(ab[1]), strip(ab[2])>>
      ELSE <<text, <<>>>>

\* the first position at or after k that holds no whitespace (\s*)
skipWS(s, k) ==
  LET ks == {n \in k..Len(s) : s[n] \notin WS}
  IN  IF ks = {} THEN Len(s) + 1 ELSE Min(ks)

\* re.match(r'\*\*(.+?)\*\*(?:\s*\|\s*\*(.+?)\*)?', raw):
\* [matched, g1, g2]; g2 is <<>> when the optional group did not take part
metaMatch(raw) ==
  LET qs == {q \in 4..(Len(raw) - 1) : raw[q] = "*" /\ raw[q + 1] = "*"}
  IN  IF ~(startswith(raw, <<"*", "*">>) /\ qs # {})
      THEN [matched |-> FALSE, g1 |-> <<>>, g2 |-> <<>>]
      ELSE LET q  == Min(qs)
               p1 == skipWS(raw, q + 2)
               p2 == skipWS(raw, p1 + 1)
               es == {e \in (p2 + 2)..Len(raw) : raw[e] = "*"}
               opt == /\ p1 <= Len(raw) /\ raw[p1] = "|"
                      /\ p2 <= Len(raw) /\ raw[p2] = "*"
                      /\ es # {}
           IN  [matched |-> TRUE, g1 |-> SubSeq(raw, 3, q - 1),
                g2 |-> IF opt THEN SubSeq(raw, p2 + 1, Min(es) - 1) ELSE <<>>]

\* returns <<location, dates, extra>>
parse_meta(line) ==
  LET raw == strip(line)
      m == metaMatch(raw)
      bold_part == strip(m.g1)
      extra == IF m.g2 # <<>> THEN strip(m.g2) ELSE <<>>
  IN  IF ~m.matched THEN << <<>>, <<>>, <<>> >>
      ELSE IF Contains(bold_part, <<"|">>)
           THEN LET ld == split1(bold_part, <<"|">>)
                IN  <<strip(ld[1]), strip(ld[2]), extra>>
           ELSE << <<>>, strip(bold_part), extra >>

(***************************************************************************)
(* build_resume_tex: the scan                                              *)
(***************************************************************************)
\* one appended output line: the template that wrote it and the texts
\* substituted into it, in the order in which they appear
OutLine(template, fields) == [k |-> template, f |-> fields]

\* raised by indexing a list outside its range
IndexError == <<"IndexError">>

\* lines[n]
getLine(ls, n) == IF n \in 0..(Len(ls) - 1) THEN ls[n + 1] ELSE IndexError

\* re.match(r'^#{n} [^#]', L)
matchHeading(L, n) ==
  /\ Len(L) >= n + 2
  /\ \A k \in 1..n : L[k] = "#"
  /\ L[n + 1] = " "
  /\ L[n + 2] # "#"

\* the branch of the loop body that takes the stripped line L
kind(L) ==
  IF L = <<>> \/ startswith(L, Chars("---")) THEN "skip"
  ELSE IF matchHeading(L, 1) THEN "h1"
  ELSE IF matchHeading(L, 2) THEN "h2"
  ELSE IF matchHeading(L, 3) THEN "h3"
  ELSE IF matchHeading(L, 4) THEN "h4"
  ELSE IF startswith(L, Chars("- ")) THEN "bullet"
  ELSE "fallback"

\* "while n < len(lines) and not lines[n].strip(): n += 1"
skipBlank(ls, n) ==
  LET ks == {k \in n..(Len(ls) - 1) : ~IsBlank(ls[k + 1])}
  IN  IF ks = {} THEN IF n > Len(ls) THEN n ELSE Len(ls) ELSE Min(ks)

\* close_items without "item_list_open = False"
close_items_keepFlag(s) ==
  IF s.item_list_open
  THEN [s EXCEPT !.out = Append(@, OutLine("resumeItemListEnd", <<>>))]
  ELSE s

\* close_items without the test "if item_list_open"
close_items_unguarded(s) ==
  [s EXCEPT !.out = Append(@, OutLine("resumeItemListEnd", <<>>)),
            !.item_list_open = FALSE]

close_items(s) ==
  IF s.item_list_open
  THEN [s EXCEPT !.out = Append(@, OutLine("resumeItemListEnd", <<>>)),
                 !.item_list_open = FALSE]
  ELSE s

\* close_sublist without the call of close_items
close_sublist_noItems(s) ==
  IF s.sub_list_open
  THEN [s EXCEPT !.out = Append(@, OutLine("resumeSubHeadingListEnd", <<>>)),
                 !.sub_list_open = FALSE]
  ELSE s

\* close_sublist without "sub_list_open = False"
close_sublist_keepFlag(s) ==
  LET c == close_items(s)
  IN  IF c.sub_list_open
      THEN [c EXCEPT !.out = Append(@, OutLine("resumeSubHeadingListEnd", <<>>))]
      ELSE c

close_sublist(s) ==
  LET c == close_items(s)
  IN  IF c.sub_list_open
      THEN [c EXCEPT !.out = Append(@, OutLine("resumeSubHeadingListEnd", <<>>)),
                     !.sub_list_open = FALSE]
      ELSE c

\* the part of the state that close_items and close_sublist work on
Lists ==
  [out |-> out, item_list_open |-> item_list_open,
   sub_list_open |-> sub_list_open]

\* the stripped line under the cursor
L == strip(lines[i + 1])

Scanning == pc = "scan" /\ i < Len(lines)

\* the contact without the test "if i < len(lines)"
titleContact_unguarded(ls, n) ==
  IF getLine(ls, n) = IndexError THEN IndexError
  ELSE fmt(strip(getLine(ls, n)))

\* "contact = fmt(lines[i].strip()) if i < len(lines) else ''"
titleContact(ls, n) ==
  IF n < Len(ls)
  THEN IF getLine(ls, n) = IndexError THEN IndexError
       ELSE fmt(strip(getLine(ls, n)))
  ELSE <<>>

Skip ==
  /\ Scanning
  /\ kind(L) = "skip"
  /\ i' = i + 1
  /\ UNCHANGED <<lines, out, item_list_open, sub_list_open, current_section,
                 pc, lastHeader>>

Title ==
  /\ Scanning
  /\ kind(L) = "h1"
  /\ LET name == escape_tex(strip(SubSeq(L, 3, Len(L))))
         n == skipBlank(lines, i + 1)
         contact == titleContact(lines, n)
     IN  IF contact = IndexError
         THEN /\ pc' = "error"
              /\ i' = n
              /\ out' = out
         ELSE /\ pc' = pc
              /\ i' = n + 1
              /\ out' = out \o << OutLine("begin{tabular*}", <<>>),
                                  OutLine("textbf{Large}", <<name>>),
                                  OutLine("contact", <<contact>>),
                                  OutLine("end{tabular*}", <<>>),
                                  OutLine("vspace{2mm}", <<>>) >>
  /\ UNCHANGED <<lines, item_list_open, sub_list_open, current_section,
                 lastHeader>>

\* the section name without ".lower()"
sectionName_noLower(header) == strip(SubSeq(header, 4, Len(header)))

\* "current_section = L[3:].strip().lower()"
sectionName(header) == lower(strip(SubSeq(header, 4, Len(header))))

Section ==
  /\ Scanning
  /\ kind(L) = "h2"
  /\ LET c == close_sublist(Lists)
         title == strip(SubSeq(L, 4, Len(L)))
     IN  /\ current_section' = sectionName(L)
         /\ out' = c.out \o << OutLine("section", <<escape_tex(title)>>),
                               OutLine("resumeSubHeadingListStart", <<>>) >>
         /\ item_list_open' = c.item_list_open
  /\ sub_list_open' = TRUE
  /\ i' = i + 1
  /\ lastHeader' = i
  /\ UNCHANGED <<lines, pc>>

\* the cursor always set past the first non-blank line after the heading
entryNext_always(ls, n) == skipBlank(ls, n + 1) + 1

\* entryNext without the "i += 1" of the entry handler
entryNext_noAdvance(ls, n) ==
  LET j == skipBlank(ls, n + 1)
  IN  IF j < Len(ls) /\ startswith(strip(ls[j + 1]), <<"*", "*">>)
      THEN j + 1
      ELSE n

\* the cursor after the heading at n: past the metadata line when the first
\* non-blank line after the heading starts with '**', else n + 1
entryNext(ls, n) ==
  LET j == skipBlank(ls, n + 1)
  IN  IF j < Len(ls) /\ startswith(strip(ls[j + 1]), <<"*", "*">>)
      THEN j + 1
      ELSE n + 1

\* entryFields joining role and extra also when the role is empty
entryFields_alwaysJoin(ls, n) ==
  LET h == parse_heading3(strip(ls[n + 1]))
      company == escape_tex(h[1])
      role == escape_tex(h[2])
      j == skipBlank(ls, n + 1)
  IN  IF j < Len(ls) /\ startswith(strip(ls[j + 1]), <<"*", "*">>)
      THEN LET m == parse_meta(ls[j + 1])
               extra == m[3]
           IN  [company |-> company,
                role |-> IF extra # <<>>
                         THEN role \o Chars(" | ") \o extra
                         ELSE role,
                loc |-> replace(m[1], "ENDASH", <<"-", "-">>),
                dates |-> replace(m[2], "ENDASH", <<"-", "-">>)]
      ELSE [company |-> company, role |-> role, loc |-> <<>>,
            dates |-> <<>>]

\* company, role, loc and dates of the heading at n, as the handler holds
\* them when it chooses the layout
entryFields(ls, n) ==
  LET h == parse_heading3(strip(ls[n + 1]))
      company == escape_tex(h[1])
      role == escape_tex(h[2])
      j == skipBlank(ls, n + 1)
  IN  IF j < Len(ls) /\ startswith(strip(ls[j + 1]), <<"*", "*">>)
      THEN LET m == parse_meta(ls[j + 1])
               extra == m[3]
           IN  [company |-> company,
                role |-> IF extra # <<>>
                         THEN IF role # <<>>
                              THEN role \o Chars(" | ") \o extra
                              ELSE extra
                         ELSE role,
                loc |-> replace(m[1], "ENDASH", <<"-", "-">>),
                dates |-> replace(m[2], "ENDASH", <<"-", "-">>)]
      ELSE [company |-> company, role |-> role, loc |-> <<>>,
            dates |-> <<>>]

\* "has_h4": n is the cursor after the heading and its metadata line
has_h4(ls, n) ==
  LET peek == skipBlank(ls, n)
  IN  peek < Len(ls) /\ startswith(strip(ls[peek + 1]), Chars("####"))

\* "loc or dates"
locOrDates(e) == IF e.loc # <<>> THEN e.loc ELSE e.dates

\* "dates or loc"
datesOrLoc(e) == IF e.dates # <<>> THEN e.dates ELSE e.loc

\* the lines the entry handler appends
entryLayout(section, h4, e) ==
  IF Contains(section, Chars("education"))
  THEN << OutLine("resumeSubheading", <<e.company, <<>>>>),
          OutLine("resumeSubheading.2", <<escape_tex(datesOrLoc(e)), <<>>>>) >>
  ELSE IF h4
  THEN << OutLine("vspace{-1pt}item", <<>>),
          OutLine("begin{tabular*}{0.97}", <<>>),
          OutLine("textbf&", <<e.company, escape_tex(e.loc)>>),
          OutLine("textit{small}&textit{small}",
                  <<e.role, escape_tex(e.dates)>>),
          OutLine("end{tabular*}vspace{2pt}", <<>>) >>
  ELSE << OutLine("resumeSubheading", <<e.company, escape_tex(e.loc)>>),
          OutLine("resumeSubheading.2", <<e.role, escape_tex(e.dates)>>) >>

Entry ==
  /\ Scanning
  /\ kind(L) = "h3"
  /\ LET c == close_items(Lists)
         n == entryNext(lines, i)
     IN  /\ i' = n
         /\ out' = c.out \o entryLayout(current_section, has_h4(lines, n),
                                        entryFields(lines, i))
         /\ item_list_open' = c.item_list_open
  /\ UNCHANGED <<lines, sub_list_open, current_section, pc, lastHeader>>

SubHeader ==
  /\ Scanning
  /\ kind(L) = "h4"
  /\ LET c == close_items(Lists)
         header == escape_tex(strip(SubSeq(L, 6, Len(L))))
     IN  /\ out' = c.out \o << OutLine("small", <<header>>),
                               OutLine("vspace{-8pt}", <<>>) >>
         /\ item_list_open' = c.item_list_open
  /\ i' = i + 1
  /\ UNCHANGED <<lines, sub_list_open, current_section, pc, lastHeader>>

\* the section names compared for equality instead of "in"
is_flat_equal(section) ==
  section = Chars("skill") \/ section = Chars("co-curricular")

is_flat(section) ==
  Contains(section, Chars("skill")) \/ Contains(section, Chars("co-curricular"))

\* re.match(r'\\textbf\{(.+?):\}?\s*(.*)', text): [matched, g1, g2]
labelMatch(text) ==
  LET qs == {q \in 10..Len(text) : text[q] = ":"}
  IN  IF ~(startswith(text, Chars("\\textbf{")) /\ qs # {})
      THEN [matched |-> FALSE, g1 |-> <<>>, g2 |-> <<>>]
      ELSE LET q == Min(qs)
               p == IF q < Len(text) /\ text[q + 1] = "}" THEN q + 2
                    ELSE q + 1
           IN  [matched |-> TRUE, g1 |-> SubSeq(text, 9, q - 1),
                g2 |-> SubSeq(text, skipWS(text, p), Len(text))]

\* the lines the bullet handler appends in a flat section
flatBullet(text) ==
  LET m == labelMatch(text)
  IN  IF m.matched
      THEN << OutLine("item[circ]small{textbf{}{: }}", <<m.g1, m.g2>>) >>
      ELSE << OutLine("item[circ]small{}", <<text>>) >>

Bullet ==
  /\ Scanning
  /\ kind(L) = "bullet"
  /\ LET text == fmt(strip(SubSeq(L, 3, Len(L))))
     IN  IF is_flat(current_section)
         THEN /\ out' = out \o flatBullet(text)
              /\ item_list_open' = item_list_open
         ELSE /\ out' = (IF item_list_open THEN out
                         ELSE Append(out, OutLine("resumeItemListStart", <<>>)))
                        \o << OutLine("item small{}", <<text>>) >>
              /\ item_list_open' = TRUE
  /\ i' = i + 1
  /\ UNCHANGED <<lines, sub_list_open, current_section, pc, lastHeader>>

\* the fallback branch closing the item list
Fallback_closesItems ==
  /\ Scanning
  /\ kind(L) = "fallback"
  /\ out' = close_items(Lists).out
  /\ item_list_open' = FALSE
  /\ i' = i + 1
  /\ UNCHANGED <<lines, sub_list_open, current_section, pc, lastHeader>>

Fallback ==
  /\ Scanning
  /\ kind(L) = "fallback"
  /\ i' = i + 1
  /\ UNCHANGED <<lines, out, item_list_open, sub_list_open, current_section,
                 pc, lastHeader>>

\* after the loop: close_sublist(), the document end, return
Finish ==
  /\ pc = "scan"
  /\ i >= Len(lines)
  /\ LET c == close_sublist(Lists)
     IN  /\ out' = Append(c.out, OutLine("end{document}", <<>>))
         /\ item_list_open' = c.item_list_open
         /\ sub_list_open' = c.sub_list_open
  /\ pc' = "done"
  /\ UNCHANGED <<lines, current_section, i, lastHeader>>

(***************************************************************************)
(* The inputs                                                              *)
(***************************************************************************)
\* str.lstrip() and str.rstrip()
lstrip(s) ==
  LET ks == {k \in 1..Len(s) : s[k] \notin WS}
  IN  IF ks = {} THEN <<>> ELSE SubSeq(s, Min(ks), Len(s))

rstrip(s) ==
  LET ks == {k \in 1..Len(s) : s[k] \notin WS}
  IN  IF ks = {} THEN <<>> ELSE SubSeq(s, 1, Max(ks))

\* md_text.strip().split('\n'), md_text being the lines of raw joined by
\* newlines
splitLines(raw) ==
  LET nb == {k \in 1..Len(raw) : ~IsBlank(raw[k])}
  IN  IF nb = {} THEN << <<>> >>
      ELSE LET a == Min(nb)
               b == Max(nb)
           IN  [k \in 1..(b - a + 1) |->
                  IF a = b THEN strip(raw[a])
                  ELSE IF k = 1 THEN lstrip(raw[a])
                  ELSE IF k = b - a + 1 THEN rstrip(raw[b])
                  ELSE raw[a + k - 1]]

\* the lines the documents are made of
Pool ==
  { <<" ">>,
    Chars("# Jo"),
    Chars("## Skills & Tools"),
    Chars("## Work Experience"),
    Chars("## Education"),
    Chars("### Acme ") \o <<"EMDASH">> \o Chars(" Eng"),
    Chars("### Uni"),
    Chars("**Remote | 2020") \o <<"ENDASH">> \o Chars("22**"),
    Chars("**Rome |**"),
    Chars("**x"),
    Chars("#### Sub"),
    Chars("  - a_b"),
    Chars("---"),
    Chars("text") }

Docs == UNION {[1..n -> Pool] : n \in 1..MaxLines}

\* the lines of the documents about entries: longer documents of fewer lines
EntryPool ==
  { <<" ">>,
    Chars("# Jo"),
    Chars("## Education"),
    Chars("## Work Experience"),
    Chars("### Acme ") \o <<"EMDASH">> \o Chars(" Eng"),
    Chars("**Remote | 2020") \o <<"ENDASH">> \o Chars("22**"),
    Chars("**Rome |**"),
    Chars("#### Sub"),
    Chars("- a_b") }

EntryDocs == UNION {[1..n -> EntryPool] : n \in 1..MaxEntryLines}

\* the lines of the documents about inline formatting and flat bullets
FmtPool ==
  { <<" ">>,
    Chars("# Jo"),
    Chars("## Skills & Tools"),
    Chars("## Work Experience"),
    Chars("### Uni"),
    Chars("#### Sub"),
    Chars("**x"),
    Chars("- **a&b**"),
    Chars("- **x**"),
    Chars("- *i_j* [t](u%v)"),
    Chars("- **Lang:** Go"),
    Chars("- **Bold** text: more") }

FmtDocs == UNION {[1..n -> FmtPool] : n \in 1..MaxFmtLines}

\* the lines of the documents about entry headings and metadata lines
HeadPool ==
  { <<" ">>,
    Chars("# Jo"),
    Chars("## Work Experience"),
    Chars("## Education"),
    Chars("### A ") \o <<"EMDASH">> \o Chars(" B"),
    Chars("### A -- B"),
    Chars("### A") \o <<"EMDASH">> \o Chars("B"),
    Chars("### A") \o <<"EMDASH">> \o Chars("B -- C_D"),
    Chars("### A \\textemdash B"),
    Chars("### Uni"),
    Chars("**Remote | 2020") \o <<"ENDASH">> \o Chars("22** | *P")
      \o <<"ENDASH">> \o Chars("T & x*"),
    Chars("**Rome |**"),
    Chars("#### Sub"),
    Chars("####x"),
    Chars("- a_b") }

HeadDocs == UNION {[1..n -> HeadPool] : n \in 1..MaxHeadLines}

\* the state at the start of the loop, for a document of docs
Start(docs) ==
  /\ \E raw \in docs : lines = splitLines(raw)
  /\ out = << OutLine("LATEX_PREAMBLE", <<>>) >>
  /\ item_list_open = FALSE
  /\ sub_list_open = FALSE
  /\ current_section = <<>>
  /\ i = 0
  /\ pc = "scan"
  /\ lastHeader = -1

Init == Start(Docs)

InitEntries == Start(EntryDocs)

InitFmt == Start(FmtDocs)

InitHead == Start(HeadDocs)

Next ==
  \/ Skip
  \/ Title
  \/ Section
  \/ Entry
  \/ SubHeader
  \/ Bullet
  \/ Fallback
  \/ Finish

Spec == Init /\ [][Next]_vars

SpecEntries == InitEntries /\ [][Next]_vars

SpecFmt == InitFmt /\ [][Next]_vars

SpecHead == InitHead /\ [][Next]_vars

\* the interpreter keeps running the function until it returns: an iteration
\* of the loop is taken while the loop condition holds, and so is the step
\* after the loop.  The fairness of the iterations is written with its
\* enabling condition, Scanning, in place of ENABLED <<Next>>_vars: in a
\* state where Scanning holds exactly one handler is enabled (kind is total)
\* and it moves the cursor or sets pc.
SpecFair ==
  /\ Init /\ [][Next]_vars
  /\ WF_vars(Finish)
  /\ ([]<>~Scanning \/ []<><<Next>>_vars)

(***************************************************************************)
(* Properties                                                              *)
(***************************************************************************)
\* the number of lines of o written by template k
count(o, k) == Cardinality({n \in 1..Len(o) : o[n].k = k})

\* the lists of one kind that the first n output lines leave open
openAfter(n, start, end) ==
  count(SubSeq(out, 1, n), start) - count(SubSeq(out, 1, n), end)

openItems(n) == openAfter(n, "resumeItemListStart", "resumeItemListEnd")

openSubLists(n) ==
  openAfter(n, "resumeSubHeadingListStart", "resumeSubHeadingListEnd")

\* the 0-based positions of the input lines that branch b of the loop takes
linesOfKind(b) == {n \in 0..(Len(lines) - 1) : kind(strip(lines[n + 1])) = b}

\* C1: the open and close directives of the output are balanced and
\* properly nested: a close directive is only written for a list that is
\* open, the sub-list is never closed while an item list is open, and the
\* finished document leaves no list open.  (The preamble defines the four
\* macros once each; a definition is not a directive.)
C1_Balance ==
  /\ \A n \in 1..Len(out) :
       /\ out[n].k = "resumeItemListEnd" => openItems(n - 1) > 0
       /\ out[n].k = "resumeSubHeadingListEnd" =>
            openSubLists(n - 1) > 0 /\ openItems(n - 1) = 0
  /\ pc = "done" =>
       openItems(Len(out)) = 0 /\ openSubLists(Len(out)) = 0

\* a finished document in which a section with an open item list was closed
\* by the next section
C1_Witness ==
  /\ pc = "done"
  /\ count(out, "resumeSubHeadingListStart") >= 2
  /\ \E n \in 2..Len(out) :
       /\ out[n].k = "resumeSubHeadingListEnd"
       /\ out[n - 1].k = "resumeItemListEnd"
       /\ n < Len(out) - 1

\* C2: at every loop-iteration boundary itemListOpen implies subListOpen.
\* The code opens an item list for a bullet before the first section header.
C2_ItemImpliesSub == item_list_open => sub_list_open

\* C3: when the scan has ended and close_sublist() has run, both flags are
\* false and the document-close line is written exactly once, as the last
\* output line (so after every list-close directive); before that it is not
\* written at all.
C3_EndOfScan ==
  /\ pc = "done" =>
       /\ ~item_list_open
       /\ ~sub_list_open
       /\ count(out, "end{document}") = 1
       /\ out[Len(out)].k = "end{document}"
  /\ pc # "done" => count(out, "end{document}") = 0

\* the scan ended with both lists open and the final close_sublist() closed
\* both of them
C3_Witness ==
  /\ pc = "done"
  /\ Len(out) >= 3
  /\ out[Len(out) - 2].k = "resumeItemListEnd"
  /\ out[Len(out) - 1].k = "resumeSubHeadingListEnd"

\* C4: every section header line of the input is handled by the section
\* handler, so the finished document holds one section-title command per
\* section header line of the input.  The title handler takes the first
\* non-blank line after the title as the contact line, also when it is a
\* section header.
C4_EverySectionHandled ==
  pc = "done" => count(out, "section") = Cardinality(linesOfKind("h2"))

\* the position of the first non-blank line after position n, Len(lines)
\* when there is none (positions are 0-based)
firstNonBlankAfter(n) ==
  LET ks == {k \in (n + 1)..(Len(lines) - 1) :
               \E c \in 1..Len(lines[k + 1]) : lines[k + 1][c] \notin WS}
  IN  IF ks = {} THEN Len(lines) ELSE Min(ks)

\* the first non-blank line after position n starts with the bold marker
boldLineAfter(n) ==
  /\ firstNonBlankAfter(n) < Len(lines)
  /\ startswith(strip(lines[firstNonBlankAfter(n) + 1]), <<"*", "*">>)

\* the loop is about to take branch b
AtKind(b) == Scanning /\ kind(L) = b

\* C5: the entry handler advances the cursor by exactly one when the first
\* non-blank line after the heading does not start with '**', and to just
\* after that line when it does; it skips no other non-blank line, and no
\* title, section header, entry heading, sub-header or bullet line.
C5_Step ==
  AtKind("h3") =>
    /\ i' = IF boldLineAfter(i) THEN firstNonBlankAfter(i) + 1 ELSE i + 1
    /\ \A n \in (i + 1)..(i' - 1) :
         /\ IsBlank(lines[n + 1]) \/ n = firstNonBlankAfter(i)
         /\ kind(strip(lines[n + 1])) \notin {"h1", "h2", "h3", "h4", "bullet"}

C5_Lookahead == [][C5_Step]_vars

\* an entry heading, a blank line and a bullet: the heading is handled and
\* the cursor is on the blank line, one past the heading
C5_Witness ==
  /\ Len(lines) = 3
  /\ kind(strip(lines[1])) = "h3"
  /\ IsBlank(lines[2])
  /\ kind(strip(lines[3])) = "bullet"
  /\ i = 1
  /\ out[Len(out)].k = "resumeSubheading.2"

\* word occurs in t, letter case ignored
ContainsIgnoringCase(t, word) ==
  \E n \in 0..(Len(t) - Len(word)) :
    \A c \in 1..Len(word) : lowerChar(t[n + c]) = word[c]

\* t names a flat section
FlatTitle(t) ==
  \/ ContainsIgnoringCase(t, Chars("skill"))
  \/ ContainsIgnoringCase(t, Chars("co-curricular"))

FlatBulletKinds == {"item[circ]small{textbf{}{: }}", "item[circ]small{}"}

\* the output line n lies in a section with a flat title: the last section
\* command before it has one (escape_tex changes no letter and no hyphen)
InFlatSection(n) ==
  LET hs == {h \in 1..n : out[h].k = "section"}
  IN  hs # {} /\ FlatTitle(out[Max(hs)].f[1])

\* C6: while the current section is flat no item list is open and, during
\* the scan, the sub-list is open; every bullet of a flat section is written
\* as a flat bullet, inside the open sub-list, and no open-item-list or
\* close-item-list directive is written after a flat section's title.
C6_FlatNoItemList ==
  /\ FlatTitle(current_section) =>
       ~item_list_open /\ (pc = "scan" => sub_list_open)
  /\ \A n \in 1..Len(out) :
       /\ out[n].k \in FlatBulletKinds =>
            openSubLists(n - 1) = 1 /\ openItems(n - 1) = 0
       /\ InFlatSection(n) =>
            out[n].k \notin {"resumeItemListStart", "resumeItemListEnd",
                             "item small{}"}

\* a flat section that holds a bullet and then an entry heading
C6_Witness ==
  /\ pc = "done"
  /\ FlatTitle(current_section)
  /\ \E n \in 1..(Len(out) - 1) :
       /\ out[n].k \in FlatBulletKinds
       /\ out[n + 1].k = "resumeSubheading"

\* the output lines of the layouts, by field
CompactEntry(company, combined) ==
  << OutLine("resumeSubheading", <<company, <<>>>>),
     OutLine("resumeSubheading.2", <<combined, <<>>>>) >>

StandardEntry(company, loc, role, dates) ==
  << OutLine("resumeSubheading", <<company, loc>>),
     OutLine("resumeSubheading.2", <<role, dates>>) >>

InlineEntry(company, loc, role, dates) ==
  << OutLine("vspace{-1pt}item", <<>>),
     OutLine("begin{tabular*}{0.97}", <<>>),
     OutLine("textbf&", <<company, loc>>),
     OutLine("textit{small}&textit{small}", <<role, dates>>),
     OutLine("end{tabular*}vspace{2pt}", <<>>) >>

\* what the entry handler appends to the output in this step
Appended == SubSeq(out', Len(close_items(Lists).out) + 1, Len(out'))

\* C7: an entry heading in an education section gets the compact entry with
\* the organization and one combined field, the dates when there are dates
\* and the location otherwise, also when a sub-header follows; elsewhere it
\* gets the inline block when a sub-header follows and the standard two-row
\* entry otherwise.  One layout is written per entry heading.
C7_Step ==
  AtKind("h3") =>
    LET e == entryFields(lines, i)
        loc == escape_tex(e.loc)
        dates == escape_tex(e.dates)
    IN  /\ SubSeq(out', 1, Len(close_items(Lists).out)) = close_items(Lists).out
        /\ Appended =
             IF Contains(current_section, Chars("education"))
             THEN CompactEntry(e.company, IF dates # <<>> THEN dates ELSE loc)
             ELSE IF has_h4(lines, i')
             THEN InlineEntry(e.company, loc, e.role, dates)
             ELSE StandardEntry(e.company, loc, e.role, dates)

C7_Layout == [][C7_Step]_vars

\* an education entry with both a location and dates, followed by a
\* sub-header: the compact entry with the dates was written
C7_Witness ==
  /\ Len(lines) = 4
  /\ Contains(current_section, Chars("education"))
  /\ kind(strip(lines[2])) = "h3"
  /\ parse_meta(lines[3])[1] # <<>>
  /\ parse_meta(lines[3])[2] # <<>>
  /\ kind(strip(lines[4])) = "h4"
  /\ i = 3
  /\ out[Len(out)] =
       OutLine("resumeSubheading.2",
               <<replace(parse_meta(lines[3])[2], "ENDASH", <<"-", "-">>),
                 <<>>>>)

\* the title of the section header at position n
headerTitle(n) == strip(SubSeq(strip(lines[n + 1]), 4, Len(strip(lines[n + 1]))))

\* C8: a bullet is written flat exactly when the title of the last section
\* header handled contains 'skill' or 'co-curricular', letter case ignored;
\* never before the first section header, and whatever the earlier sections
\* were.  'Skills & Tools' is flat, 'Work Experience' is not.
C8_Step ==
  AtKind("bullet") =>
    (out'[Len(out')].k \in FlatBulletKinds
       <=> (lastHeader >= 0 /\ FlatTitle(headerTitle(lastHeader))))

C8_FlatDetection ==
  /\ [](/\ is_flat(sectionName(Chars("## Skills & Tools")))
        /\ ~is_flat(sectionName(Chars("## Work Experience"))))
  /\ [][C8_Step]_vars

\* a bullet written flat in a flat section that follows a section that is
\* not flat
C8_Witness ==
  /\ Len(lines) = 3
  /\ kind(strip(lines[1])) = "h2"
  /\ ~FlatTitle(headerTitle(0))
  /\ lastHeader = 1
  /\ FlatTitle(headerTitle(1))
  /\ i = 3
  /\ out[Len(out)].k \in FlatBulletKinds

\* C9: close_items() and close_sublist() are idempotent in every state:
\* a second call writes nothing and changes nothing.  close_items() writes
\* the close-item-list directive only if the item list was open;
\* close_sublist() does what close_items() does and then writes the
\* close-sub-list directive only if the sub-list was open.  Both leave the
\* flags they close false.
C9_CloseIdempotent ==
  LET a == close_items(Lists)
      b == close_sublist(Lists)
  IN  /\ close_items(a) = a
      /\ close_sublist(b) = b
      /\ close_items(b) = b
      /\ a.out = IF item_list_open
                 THEN Append(out, OutLine("resumeItemListEnd", <<>>))
                 ELSE out
      /\ ~a.item_list_open
      /\ a.sub_list_open = sub_list_open
      /\ b.out = IF sub_list_open
                 THEN Append(a.out, OutLine("resumeSubHeadingListEnd", <<>>))
                 ELSE a.out
      /\ ~b.item_list_open
      /\ ~b.sub_list_open

\* both lists are open after an earlier section was closed by close_sublist()
C9_Witness ==
  /\ item_list_open
  /\ sub_list_open
  /\ count(out, "resumeSubHeadingListEnd") >= 1
  /\ pc = "scan"

\* the heading text holds none of the separators
NoSeparator(text) ==
  /\ ~Contains(text, <<"EMDASH">>)
  /\ ~Contains(text, Chars(" -- "))
  /\ ~Contains(text, Chars(" \\textemdash "))

\* raw starts with the bold marker and has no closing marker after at least
\* one character
Malformed(raw) ==
  /\ startswith(raw, <<"*", "*">>)
  /\ ~\E q \in 4..(Len(raw) - 1) : raw[q] = "*" /\ raw[q + 1] = "*"

\* the entry written last in o has an empty location and empty dates, and
\* the given role (an education entry writes no role)
EmptyMeta(o, education, role) ==
  LET n == Len(o)
  IN  IF education
      THEN o[n] = OutLine("resumeSubheading.2", << <<>>, <<>> >>)
      ELSE IF o[n].k = "resumeSubheading.2"
      THEN /\ o[n - 1].f[2] = <<>>
           /\ o[n].f = <<role, <<>>>>
      ELSE /\ o[n].k = "end{tabular*}vspace{2pt}"
           /\ o[n - 2].f[2] = <<>>
           /\ o[n - 1].f = <<role, <<>>>>

\* C10: the defaults of the recoverable parse gaps.  A title with no line
\* after it gets an empty contact; an entry heading with no metadata line,
\* or with a metadata line that does not match the bold pattern, gets an
\* empty location and empty dates and keeps the role of the heading; a
\* heading with no separator has an empty role.
C10_Step ==
  /\ AtKind("h1") /\ firstNonBlankAfter(i) = Len(lines) =>
       /\ out'[Len(out') - 2] = OutLine("contact", << <<>> >>)
       /\ pc' = "scan"
  /\ AtKind("h3") =>
       LET text == strip(lstripHash(L))
           role == escape_tex(parse_heading3(L)[2])
           education == Contains(current_section, Chars("education"))
           nb == firstNonBlankAfter(i)
       IN  /\ NoSeparator(text) => role = <<>>
           /\ ~boldLineAfter(i) => EmptyMeta(out', education, role)
           /\ boldLineAfter(i) /\ Malformed(strip(lines[nb + 1])) =>
                EmptyMeta(out', education, role)

bulletText == strip(SubSeq(L, 3, Len(L)))

\* the templates that take the whole formatted text of a bullet
WholeTextKinds == {"item small{}", "item[circ]small{}"}

Special == {"&", "%", "#", "_"}

\* the number of special characters in t
specials(t) == Cardinality({n \in 1..Len(t) : t[n] \in Special})

\* every special character of e has exactly one backslash before it
EscapedOnce(e) ==
  \A n \in 1..Len(e) :
    e[n] \in Special =>
      /\ n > 1 /\ e[n - 1] = "\\"
      /\ n > 2 => e[n - 2] # "\\"

\* no backslash of e stands before a backslash or a brace
NoEscapedMarkup(e) ==
  \A n \in 1..(Len(e) - 1) : e[n] = "\\" => e[n + 1] \notin {"\\", "{", "}"}

\* C11: fmt escapes & % # _ and substitutes the spans on the escaped text:
\* '**a&b**' becomes the bold command around the escaped ampersand, every
\* special character of the text is escaped once, no backslash or brace of a
\* substituted command is escaped, and '**x**' becomes one bold command, not
\* italics.
C11_Step ==
  AtKind("bullet") /\ out'[Len(out')].k \in WholeTextKinds =>
    LET e == out'[Len(out')].f[1]
    IN  /\ bulletText = Chars("**a&b**") => e = Chars("\\textbf{a\\&b}")
        /\ bulletText = Chars("**x**") => e = Chars("\\textbf{x}")
        /\ EscapedOnce(e)
        /\ specials(e) = specials(bulletText)
        /\ NoEscapedMarkup(e)
        /\ startswith(bulletText, <<"*", "*">>) =>
             ~startswith(e, Chars("\\textit{"))

C11_EscapeThenSubstitute == [][C11_Step]_vars

\* the bullet '**a&b**' was written as an item of an item list
C11_Witness ==
  /\ i \in 1..Len(lines)
  /\ strip(lines[i]) = Chars("- **a&b**")
  /\ out[Len(out)] = OutLine("item small{}", <<Chars("\\textbf{a\\&b}")>>)

\* the separators of an entry heading, the first having the highest priority
SepPriority ==
  << <<" ", "EMDASH", " ">>, <<" ", "-", "-", " ">>,
     Chars(" \\textemdash "), <<"EMDASH">> >>

\* sep occurs in text at position k
OccursAt(text, sep, k) ==
  /\ k >= 1
  /\ k + Len(sep) - 1 <= Len(text)
  /\ \A c \in 1..Len(sep) : text[k + c - 1] = sep[c]

OccursIn(text, sep) == \E k \in 1..Len(text) : OccursAt(text, sep, k)

\* p is the pair the text splits into: at the first occurrence of the
\* separator of highest priority that occurs in it, both parts trimmed
SplitByPriority(text, p) ==
  \/ /\ \A n \in 1..Len(SepPriority) : ~OccursIn(text, SepPriority[n])
     /\ p = <<text, <<>>>>
  \/ \E n \in 1..Len(SepPriority) : \E k \in 1..Len(text) :
       /\ \A m \in 1..(n - 1) : ~OccursIn(text, SepPriority[m])
       /\ OccursAt(text, SepPriority[n], k)
       /\ \A j \in 1..(k - 1) : ~OccursAt(text, SepPriority[n], j)
       /\ p = <<strip(SubSeq(text, 1, k - 1)),
                strip(SubSeq(text, k + Len(SepPriority[n]), Len(text)))>>

\* the headings that split into the pair (A, B)
SamePairHeadings ==
  { Chars("### A ") \o <<"EMDASH">> \o Chars(" B"),
    Chars("### A -- B"),
    Chars("### A \\textemdash B"),
    Chars("### A") \o <<"EMDASH">> \o Chars("B") }

\* the first text the entry handler writes in this step: the company
writtenCompany ==
  Appended[Min({n \in 1..Len(Appended) : Appended[n].f # <<>>})].f[1]

\* C12: parse_heading3 splits the heading text at the first occurrence of
\* the separator of highest priority that occurs in it (priority before
\* position), both parts trimmed; 'A -- B' with the spaced em dash, the
\* double hyphen or the bare em dash gives (A, B); a text with no separator
\* gives (text, '').  The company written is the first part.
C12_Step ==
  AtKind("h3") =>
    LET text == strip(lstripHash(L))
        p == parse_heading3(L)
    IN  /\ SplitByPriority(text, p)
        /\ L \in SamePairHeadings => p = << <<"A">>, <<"B">> >>
        /\ writtenCompany = escape_tex(p[1])

C12_SeparatorPriority == [][C12_Step]_vars

\* a heading with a bare em dash before a double hyphen was split at the
\* double hyphen
C12_Witness ==
  /\ lines = << Chars("### A") \o <<"EMDASH">> \o Chars("B -- C_D") >>
  /\ i = 1
  /\ out[2] = OutLine("resumeSubheading", << <<"A", "EMDASH", "B">>, <<>> >>)
  /\ out[3] = OutLine("resumeSubheading.2", << Chars("C\\_D"), <<>> >>)

\* C13: the en dashes of every field taken from a consumed metadata line
\* (location, dates and extra) are written as '--': when the heading holds no
\* en dash, none is left in what the entry handler writes.  The code
\* replaces the en dash in loc and dates only, not in extra.
C13_Step ==
  AtKind("h3") /\ boldLineAfter(i) /\ ~Contains(L, <<"ENDASH">>) =>
    \A n \in 1..Len(Appended) : \A c \in DOMAIN Appended[n].f :
      ~Contains(Appended[n].f[c], <<"ENDASH">>)

C13_DashesNormalized == [][C13_Step]_vars

\* the role the entry handler writes in this step, outside an education
\* section: the first text of the second row of the entry
writtenRole ==
  IF Len(Appended) = 2 THEN Appended[2].f[1] ELSE Appended[4].f[1]

\* the extra of the metadata line after the heading at position n
extraAfter(n) == parse_meta(lines[firstNonBlankAfter(n) + 1])[3]

\* C14: the role written for an entry heading whose metadata line was
\* consumed is 'role | extra' when the role of the heading and the extra are
\* both non-empty, the extra when the role is empty, the role when the extra
\* is empty, and empty when both are; without a metadata line it is the role
\* of the heading.  (The role is the escaped second part of the heading, the
\* extra the text parse_meta returns; an education entry writes no role.)
C14_Step ==
  AtKind("h3") /\ ~Contains(current_section, Chars("education")) =>
    LET role == escape_tex(parse_heading3(L)[2])
        extra == extraAfter(i)
    IN  /\ ~boldLineAfter(i) => writtenRole = role
        /\ boldLineAfter(i) =>
             /\ role # <<>> /\ extra # <<>> =>
                  writtenRole = role \o <<" ", "|", " ">> \o extra
             /\ role = <<>> => writtenRole = extra
             /\ extra = <<>> => writtenRole = role

C14_FoldExtra == [][C14_Step]_vars

\* a heading without role and a metadata line with an extra: the role
\* written is the extra
C14_Witness ==
  /\ Len(lines) = 2
  /\ lines[1] = Chars("### Uni")
  /\ parse_meta(lines[2])[3] # <<>>
  /\ i = 2
  /\ out[3] = OutLine("resumeSubheading.2",
                      <<parse_meta(lines[2])[3],
                        replace(parse_meta(lines[2])[2], "ENDASH", <<"-", "-">>)>>)

\* one iteration of the main loop moves the cursor forward by at least one
\* line, by exactly one for a blank, separator or unrecognized line; the
\* step after the loop leaves the cursor alone
C15_Step ==
  /\ Scanning => /\ i' >= i + 1
                 /\ kind(L) \in {"skip", "fallback"} => i' = i + 1
  /\ ~Scanning => i' = i

\* C15: the scan is one forward pass that terminates: the cursor never
\* decreases, every iteration of the loop increases it by at least one (a
\* blank, separator or unrecognized line by exactly one), and for every input
\* the loop ends: eventually the lists are closed and the document end is
\* the last line written.
C15_Terminates ==
  /\ [][C15_Step]_vars
  /\ <>(/\ pc = "done"
        /\ i >= Len(lines)
        /\ ~item_list_open /\ ~sub_list_open
        /\ out[Len(out)] = OutLine("end{document}", <<>>))

\* a finished run of three lines in which the title handler moved the cursor
\* over a blank line and the contact line in one iteration
C15_Witness ==
  /\ pc = "done"
  /\ Len(lines) = 3
  /\ kind(strip(lines[1])) = "h1"
  /\ IsBlank(lines[2])
  /\ i = 3
  /\ out[Len(out)] = OutLine("end{document}", <<>>)

\* C16: a skipped line has no effect: handling a blank line, a separator
\* line or a line that is no title, section header, entry heading, sub-header
\* or bullet moves the cursor by exactly one and leaves the output, both
\* list flags and the current section as they were.
C16_Step ==
  Scanning /\ kind(L) \in {"skip", "fallback"} =>
    /\ i' = i + 1
    /\ UNCHANGED <<out, item_list_open, sub_list_open, current_section>>

C16_SkippedNoEffect == [][C16_Step]_vars

\* a bullet, an unrecognized line and a bullet, finished: one item list was
\* opened and closed once around the two items
C16_Witness ==
  /\ pc = "done"
  /\ Len(lines) = 3
  /\ kind(strip(lines[1])) = "bullet"
  /\ kind(strip(lines[2])) = "fallback"
  /\ kind(strip(lines[3])) = "bullet"
  /\ count(out, "resumeItemListStart") = 1
  /\ count(out, "resumeItemListEnd") = 1
  /\ count(out, "item small{}") = 2

\* the output with the item list closed when it is open
itemListClosed ==
  IF item_list_open THEN Append(out, OutLine("resumeItemListEnd", <<>>))
  ELSE out

\* the lines written in this step after the close of the item list
afterClose == SubSeq(out', Len(itemListClosed) + 1, Len(out'))

\* C17: the entry-heading and sub-header handlers close only the item list:
\* after the step item_list_open is false, the close directive of the item
\* list is written exactly when the list was open, no close directive of the
\* outer list is written, and sub_list_open and current_section are
\* unchanged; current_section changes only in a section-header step, and
\* sub_list_open becomes false only in the step after the loop, by
\* close_sublist.
C17_Step ==
  /\ AtKind("h3") \/ AtKind("h4") =>
       /\ ~item_list_open'
       /\ UNCHANGED <<sub_list_open, current_section>>
       /\ Len(out') > Len(itemListClosed)
       /\ SubSeq(out', 1, Len(itemListClosed)) = itemListClosed
       /\ count(afterClose, "resumeItemListEnd") = 0
       /\ count(afterClose, "resumeSubHeadingListEnd") = 0
  /\ current_section' # current_section => AtKind("h2")
  /\ sub_list_open /\ ~sub_list_open' =>
       /\ ~Scanning
       /\ sub_list_open' = close_sublist(Lists).sub_list_open

C17_CloseOnlyItems == [][C17_Step]_vars

\* a sub-header handled after a bullet of a section: the item list was
\* closed, the outer list and the section are as before
C17_Witness ==
  /\ pc = "scan"
  /\ Len(lines) = 3
  /\ lines[1] = Chars("## Work Experience")
  /\ kind(strip(lines[2])) = "bullet"
  /\ kind(strip(lines[3])) = "h4"
  /\ i = 3
  /\ ~item_list_open
  /\ sub_list_open
  /\ current_section = Chars("work experience")
  /\ out[Len(out) - 2] = OutLine("resumeItemListEnd", <<>>)
  /\ out[Len(out) - 1].k = "small"

\* the inline two-column block is the layout written in this step
inlineWritten ==
  Appended[Len(Appended)] = OutLine("end{tabular*}vspace{2pt}", <<>>)

\* the first non-blank line at or after the new cursor is a line that the
\* sub-header handler takes
subHeaderNext ==
  LET j == skipBlank(lines, i')
  IN  j < Len(lines) /\ kind(strip(lines[j + 1])) = "h4"

\* C18: outside an education section the entry handler writes the inline
\* two-column layout exactly when the first non-blank line after the heading
\* (and after its metadata line, when one was consumed) is a line that the
\* sub-header handler takes.
C18_Step ==
  AtKind("h3") /\ ~Contains(current_section, Chars("education")) =>
    (inlineWritten <=> subHeaderNext)

C18_PeekAgreesWithHandler == [][C18_Step]_vars

\* the opening braces of t minus its closing braces
braces(t) ==
  Cardinality(Occurrences(t, <<"{">>)) - Cardinality(Occurrences(t, <<"}">>))

\* the braces that the texts of an output line add to its template, whose
\* own braces are balanced
fieldBraces(line) ==
  IF Len(line.f) = 2 THEN braces(line.f[1]) + braces(line.f[2])
  ELSE braces(line.f[1])

\* C19: when no line of the input contains a brace, every flat bullet
\* written, label/value or plain, has balanced braces, and the label of a
\* label/value bullet is the text of the bold label alone: it contains no
\* brace.
C19_FlatBulletBalanced ==
  (\A n \in 1..Len(lines) :
      ~Contains(lines[n], <<"{">>) /\ ~Contains(lines[n], <<"}">>)) =>
    \A n \in 1..Len(out) :
      out[n].k \in FlatBulletKinds =>
        /\ fieldBraces(out[n]) = 0
        /\ out[n].k = "item[circ]small{textbf{}{: }}" =>
             ~Contains(out[n].f[1], <<"}">>)

\* C20: every text that the entry handler places in an entry block (company,
\* role with a folded-in extra, location, dates, the combined education
\* field) has each of its characters & % # _ escaped exactly once.
C20_Step ==
  AtKind("h3") =>
    \A n \in 1..Len(Appended) : \A c \in DOMAIN Appended[n].f :
      EscapedOnce(Appended[n].f[c])

C20_EntryFieldsEscaped == [][C20_Step]_vars

====
